---------------------------- MODULE Spec2Model ----------------------------
(***************************************************************************)
(* Model of the GDP snapshot ETL of missions/W1/M3:                        *)
(*   etl_project_gdp.py           (history kept in a JSON document)        *)
(*   etl_project_gdp_with_sql.py  (history kept in a SQLite table)         *)
(*                                                                         *)
(* Conventions.                                                            *)
(*  - A text is a sequence of one-character strings.                       *)
(*  - GDP_USD_million is an integer; GDP_USD_billion is kept in hundredths *)
(*    of a billion (10012 stands for 100.12), the precision round(2)       *)
(*    leaves.                                                              *)
(*  - A point in time is an integer; the text 'YYYY-MM-DD HH:MM:SS' orders *)
(*    as the instant it names, so comparing texts is comparing integers.   *)
(*  - log holds the lines the current run wrote since 'ETL Process         *)
(*    Started'; a line is [msg |-> text, n |-> the number it carries].     *)
(***************************************************************************)
EXTENDS Integers, Sequences, FiniteSets, TLC

VARIABLES
    backend,    \* "json": etl_project_gdp.py, "sql": etl_project_gdp_with_sql.py
    regionFile, \* whether COUNTRY_REGION_JSON exists
    dateUnit,   \* the unit pd.read_json reads the numbers of a mixed date column in
    pc,         \* position of __main__
    raw,        \* raw_data, the frame extract returned
    df,         \* transformed_data
    log,        \* lines written by log_progress in the current run
    jsonFile,   \* JSON_PATH: [state |-> "absent" | "corrupt" | "ok", rows |-> ...]
    dbTable,    \* committed rows of TABLE_NAME in DB_NAME, in rowid order
    outJson,    \* what run_analysis printed last
    outSql,     \* what run_sql_analysis printed last
    atStart,    \* history: both stores as they were when the current run started
    atLoad,     \* history: both stores as they were when the last load began, and how it went
    appended    \* history: per backend, the snapshots appended since the store was empty

vars == <<backend, regionFile, dateUnit, pc, raw, df, log, jsonFile, dbTable, outJson, outSql,
          atStart, atLoad, appended>>

-----------------------------------------------------------------------------
(* Bounds and program constants *)

MaxRawRows == 2      \* rows of a raw table in the transform specification
MaxRunRows == 2      \* rows one extract yields in the pipeline specification
MaxStore == 3        \* rows a store holds in the pipeline specification
MaxRows == 6         \* rows a store holds in the analysis specification
MaxPairs == 2        \* runs of both scripts in the analysis specification
Threshold == 10000   \* 100 (billion USD), in hundredths
TopK == 5            \* nlargest(5) / rank <= 5

Times == {1, 2}      \* values datetime.now() may return, whole seconds

Min(a, b) == IF a < b THEN a ELSE b

SeqsUpTo(S, n) == UNION {[1..k -> S] : k \in 0..n}

NonEmptySeqsUpTo(S, n) == UNION {[1..k -> S] : k \in 1..n}

-----------------------------------------------------------------------------
(* The texts of the second cell of a table row *)

Digits == <<"0", "1", "2", "3", "4", "5", "6", "7", "8", "9">>

IsDigit(c) == \E i \in 1..10 : Digits[i] = c

DigitVal(c) == (CHOOSE i \in 1..10 : Digits[i] = c) - 1

Txt100120 == <<"1", "0", "0", ",", "1", "2", "0">>                                 \* 100,120
Txt100130n == <<"1", "0", "0", ",", "1", "3", "0", "[", "n", " ", "1", "]">>       \* 100,130[n 1]
Txt99900y == <<"9", "9", ",", "9", "0", "0", " ", "(", "2", "0", "2", "4", ")">>   \* 99,900 (2024)
Txt100000 == <<"1", "0", "0", ",", "0", "0", "0">>                                 \* 100,000
TxtDash == <<"-">>                                                                 \* a dash, no figure
TxtEmpty == << >>                                                                  \* empty cell
TxtNeg == <<"-", "5", ",", "0", "0", "0">>                                         \* -5,000
TxtOpen == <<"1", "2", "0", " ", "(", "e", "s", "t">>                              \* 120 (est

RawTexts == {Txt100120, Txt100130n, Txt99900y, Txt100000, TxtDash, TxtEmpty, TxtNeg, TxtOpen}

Countries == {"Japan", "India", "Kosovo"}

\* Countries_Regions.json as read by json.load; a country it lacks maps to 'Unknown'
RegionMap == [c \in {"Japan", "India"} |-> "Asia"]


-----------------------------------------------------------------------------
(* transform: cleaning of GDP_USD_million *)

IsOpen(c) == c \in {"(", "["}

IsClose(c) == c \in {")", "]"}

\* str.replace(r'[\(\[].*?[\)\]]', '', regex=True): every leftmost, shortest
\* bracketed aside is removed; an opening bracket nothing closes stays.
RECURSIVE RemoveBracketed(_)
RemoveBracketed(s) ==
    IF s = << >> THEN << >>
    ELSE IF IsOpen(Head(s)) /\ \E j \in 2..Len(s) : IsClose(s[j])
         THEN LET j == CHOOSE k \in 2..Len(s) :
                          /\ IsClose(s[k])
                          /\ \A m \in 2..(k - 1) : ~IsClose(s[m])
              IN  RemoveBracketed(SubSeq(s, j + 1, Len(s)))
         ELSE <<Head(s)>> \o RemoveBracketed(Tail(s))

\* .str.strip()
RECURSIVE Strip(_)
Strip(s) ==
    IF s = << >> THEN << >>
    ELSE IF Head(s) = " " THEN Strip(Tail(s))
    ELSE IF s[Len(s)] = " " THEN Strip(SubSeq(s, 1, Len(s) - 1))
    ELSE s

\* .str.replace(',', '')
RemoveCommas(s) == SelectSeq(s, LAMBDA c : c # ",")

CleanText(s) == RemoveCommas(Strip(RemoveBracketed(s)))

\* pd.to_numeric(errors='coerce') on the texts of this model: an optional
\* sign and at least one digit is a number, anything else becomes NaN.
IsNumeric(s) ==
    LET body == IF s # << >> /\ Head(s) = "-" THEN Tail(s) ELSE s
    IN  /\ body # << >>
        /\ \A i \in 1..Len(body) : IsDigit(body[i])

RECURSIVE DigitsValue(_)
DigitsValue(s) ==
    IF s = << >> THEN 0
    ELSE 10 * DigitsValue(SubSeq(s, 1, Len(s) - 1)) + DigitVal(s[Len(s)])

ToNumeric(s) ==
    IF Head(s) = "-" THEN 0 - DigitsValue(Tail(s)) ELSE DigitsValue(s)

\* the nearest integer to num / den (den > 0), a tie going to the even one
RoundHalfEven(num, den) ==
    LET q == num \div den
        r == num % den
    IN  IF 2 * r < den THEN q
        ELSE IF 2 * r > den THEN q + 1
        ELSE IF q % 2 = 0 THEN q ELSE q + 1

\* the nearest integer to num / den (den > 0), a tie going away from zero
RoundHalfAway(num, den) ==
    LET q == num \div den
        r == num % den
    IN  IF 2 * r < den THEN q
        ELSE IF 2 * r > den THEN q + 1
        ELSE IF num >= 0 THEN q + 1 ELSE q

\* (df['GDP_USD_million'] / 1000).round(2), in hundredths of a billion
ToBillion(million) == RoundHalfEven(million, 10)

\* df['Country'].map(region_map).fillna('Unknown') when COUNTRY_REGION_JSON
\* exists, 'Unknown' for every row when it does not
Lookup(mapExists, country) ==
    IF mapExists /\ country \in DOMAIN RegionMap THEN RegionMap[country] ELSE "Unknown"


-----------------------------------------------------------------------------
(* Frames and log lines *)

Line(m, k) == [msg |-> m, n |-> k]

\* one row of raw_data
RawRow(country, text) == [Country |-> country, GDP_USD_million |-> text]

\* rows of a frame whose GDP_USD_billion is sorted descending, equal values in
\* their incoming order (sort_values(ascending=False) on a frame this small)
RECURSIVE InsertDesc(_, _)
InsertDesc(sorted, r) ==
    IF sorted = << >> THEN <<r>>
    ELSE IF Head(sorted).GDP_USD_billion >= r.GDP_USD_billion
         THEN <<Head(sorted)>> \o InsertDesc(Tail(sorted), r)
         ELSE <<r>> \o sorted

RECURSIVE SortDesc(_)
SortDesc(s) ==
    IF s = << >> THEN << >>
    ELSE InsertDesc(SortDesc(SubSeq(s, 1, Len(s) - 1)), s[Len(s)])

\* the rows to_numeric could convert, with the cleaned text still attached
Coerced(rawRows) ==
    SelectSeq([i \in 1..Len(rawRows) |->
                  [Country |-> rawRows[i].Country,
                   text |-> CleanText(rawRows[i].GDP_USD_million)]],
              LAMBDA r : IsNumeric(r.text))

\* transform of etl_project_gdp.py: the frame it returns and the lines it logs
TransformJson(rawRows, now, mapExists) ==
    LET kept == Coerced(rawRows)
        filtered_count == Len(rawRows) - Len(kept)
        rows == [i \in 1..Len(kept) |->
                    [Country |-> kept[i].Country,
                     GDP_USD_million |-> ToNumeric(kept[i].text),
                     Processed_Time |-> [kind |-> "str", t |-> now],
                     GDP_USD_billion |-> ToBillion(ToNumeric(kept[i].text)),
                     Region |-> Lookup(mapExists, kept[i].Country)]]
    IN  [df |-> SortDesc(rows),
         log |-> <<Line("Transform phase Started", 0)>>
                 \o (IF filtered_count > 0
                     THEN <<Line("Transform: Filtered out rows with invalid GDP data",
                                 filtered_count)>>
                     ELSE << >>)
                 \o <<Line("Transform phase Ended", 0)>>]

\* transform of etl_project_gdp_with_sql.py
TransformSql(rawRows, now, mapExists) ==
    LET kept == Coerced(rawRows)
        rows == [i \in 1..Len(kept) |->
                    [Country |-> kept[i].Country,
                     Region |-> Lookup(mapExists, kept[i].Country),
                     GDP_USD_billion |-> ToBillion(ToNumeric(kept[i].text)),
                     Processed_Time |-> now]]
    IN  [df |-> rows,
         log |-> <<Line("Transform phase Started", 0),
                   Line("Transform phase Ended", 0)>>]

-----------------------------------------------------------------------------
(* The JSON document: to_json, read_json, load *)

\* df.to_json(path, orient='records'): a text cell is written as a JSON string,
\* a Timestamp cell (default date_format 'epoch') as epoch milliseconds
ToJsonRow(r) ==
    [r EXCEPT !.Processed_Time =
        [kind |-> IF r.Processed_Time.kind = "str" THEN "str" ELSE "epoch",
         t |-> r.Processed_Time.t]]

ToJson(frame) == [i \in 1..Len(frame) |-> ToJsonRow(frame[i])]

\* what read_json tries as the unit of the numbers of a date column
DateUnits == {"ms", "ns"}

\* pd.read_json(path): the column label Processed_Time ends in '_time', so the
\* default convert_dates turns the column into datetimes. A column of date
\* texts only, or of epoch numbers only, is read as the instants written.
\* Once to_json has left epoch numbers next to the date texts of the newest
\* rows, the conversion settles on one unit for the whole column: with "ms"
\* the numbers are read as the instants written, with "ns" (the only unit
\* under which to_datetime also parses the texts) as nanoseconds, an instant
\* in January 1970 that is earlier than every run: time 0.
ReadJsonRow(r, mixed) ==
    [r EXCEPT !.Processed_Time =
        [kind |-> "ts",
         t |-> IF mixed /\ r.Processed_Time.kind = "epoch" /\ dateUnit = "ns"
               THEN 0
               ELSE r.Processed_Time.t]]

ReadJson(rows) ==
    LET kinds == {rows[i].Processed_Time.kind : i \in 1..Len(rows)}
    IN  [i \in 1..Len(rows) |-> ReadJsonRow(rows[i], kinds = {"str", "epoch"})]

AbsentFile == [state |-> "absent", rows |-> << >>]

CorruptFile == [state |-> "corrupt", rows |-> << >>]

OkFile(rows) == [state |-> "ok", rows |-> rows]

\* the frame load ends up writing, and the lines it logs before writing
LoadFrame(file, frame) ==
    IF file.state = "ok"
    THEN [df |-> ReadJson(file.rows) \o frame,
          log |-> <<Line("Load: New records appended to existing data", 0)>>]
    ELSE IF file.state = "corrupt"
    THEN [df |-> frame,
          log |-> <<Line("Load Warning: Failed to load history, starting new file", 0)>>]
    ELSE [df |-> frame, log |-> << >>]

\* load without its except branch: the read failure propagates
LoadJsonNoExcept(file, frame, how) ==
    LET got == LoadFrame(file, frame)
        begun == <<Line("Load phase Started", 0)>> \o got.log
    IN  IF file.state = "corrupt"
        THEN [file |-> file, raised |-> TRUE, log |-> <<Line("Load phase Started", 0)>>]
        ELSE IF how = "ok"
        THEN [file |-> OkFile(ToJson(got.df)), raised |-> FALSE,
              log |-> begun \o <<Line("Load phase Ended", Len(got.df))>>]
        ELSE IF how = "open"
        THEN [file |-> file, raised |-> TRUE, log |-> begun]
        ELSE [file |-> CorruptFile, raised |-> TRUE, log |-> begun]

\* load(df, path). how: "ok", or the way df.to_json fails: "open" (the file
\* cannot be opened for writing) or "write" (it was opened, so truncated, and
\* writing failed).
LoadJson(file, frame, how) ==
    LET got == LoadFrame(file, frame)
        begun == <<Line("Load phase Started", 0)>> \o got.log
    IN  IF how = "ok"
        THEN [file |-> OkFile(ToJson(got.df)), raised |-> FALSE,
              log |-> begun \o <<Line("Load phase Ended", Len(got.df))>>]
        ELSE IF how = "open"
        THEN [file |-> file, raised |-> TRUE, log |-> begun]
        ELSE [file |-> CorruptFile, raised |-> TRUE, log |-> begun]

-----------------------------------------------------------------------------
(* The SQLite table: load_to_db *)

NoTable == [exists |-> FALSE, rows |-> << >>]

\* an append that commits row by row: what was inserted before the failure stays
ToSqlNoRollback(rows, frame, fails, done) ==
    LET txn == IF fails THEN SubSeq(frame, 1, done) ELSE frame
    IN  [rows |-> rows \o txn, raised |-> fails]

\* df.to_sql(table_name, conn, if_exists='append', index=False): the rows are
\* inserted in one transaction, committed when all are in; when an insert
\* fails after `done` rows the transaction is rolled back and the error raised.
\* The id column is the position of the row in the table.
ToSql(rows, frame, fails, done) ==
    LET txn == IF fails THEN SubSeq(frame, 1, done) ELSE frame
    IN  IF fails
        THEN [rows |-> rows, raised |-> TRUE]            \* con.rollback() drops txn
        ELSE [rows |-> rows \o txn, raised |-> FALSE]    \* con.commit()

\* load_to_db(df, db_name, table_name)
LoadToDb(table, frame, fails, done) ==
    LET created == [exists |-> TRUE, rows |-> table.rows]   \* CREATE TABLE IF NOT EXISTS
        res == ToSql(created.rows, frame, fails, done)
    IN  [table |-> [created EXCEPT !.rows = res.rows],
         raised |-> res.raised,
         log |-> <<Line("Load to DB Started", 0)>>
                 \o (IF res.raised THEN << >> ELSE <<Line("Load to DB Ended", 0)>>)]

-----------------------------------------------------------------------------
(* Analysis: what both scripts print *)

\* the group labels in ascending order, the order groupby and GROUP BY list them in
RegionOrder == <<"Asia", "Unknown">>

MaxOf(S) == CHOOSE x \in S : \A y \in S : y <= x

RECURSIVE Sum(_)
Sum(s) == IF s = << >> THEN 0 ELSE Head(s) + Sum(Tail(s))

RECURSIVE InsertNumDesc(_, _)
InsertNumDesc(sorted, v) ==
    IF sorted = << >> THEN <<v>>
    ELSE IF Head(sorted) >= v THEN <<Head(sorted)>> \o InsertNumDesc(Tail(sorted), v)
    ELSE <<v>> \o sorted

RECURSIVE SortNumsDesc(_)
SortNumsDesc(s) ==
    IF s = << >> THEN << >>
    ELSE InsertNumDesc(SortNumsDesc(SubSeq(s, 1, Len(s) - 1)), s[Len(s)])

\* x.nlargest(k) / rank <= k: the k largest values, all of them when there are fewer
NLargest(values, k) ==
    LET v == SortNumsDesc(values) IN SubSeq(v, 1, Min(k, Len(v)))

\* the columns both reports list
Listed(r) ==
    [Country |-> r.Country, Region |-> r.Region, GDP_USD_billion |-> r.GDP_USD_billion]

\* a group average that always divides by k, as if missing members were zeros
GroupTopPadded(rows, k) ==
    LET present == SelectSeq(RegionOrder,
                             LAMBDA g : \E i \in 1..Len(rows) : rows[i].Region = g)
    IN  [j \in 1..Len(present) |->
            LET members == SelectSeq(rows, LAMBDA r : r.Region = present[j])
                top == NLargest([i \in 1..Len(members) |-> members[i].GDP_USD_billion], k)
            IN  [Region |-> present[j], sum |-> Sum(top), n |-> k]]

\* per group of `rows`, in RegionOrder: the sum and the count of its k largest values
GroupTop(rows, k) ==
    LET present == SelectSeq(RegionOrder,
                             LAMBDA g : \E i \in 1..Len(rows) : rows[i].Region = g)
    IN  [j \in 1..Len(present) |->
            LET members == SelectSeq(rows, LAMBDA r : r.Region = present[j])
                top == NLargest([i \in 1..Len(members) |-> members[i].GDP_USD_billion], k)
            IN  [Region |-> present[j], sum |-> Sum(top), n |-> Len(top)]]

\* sort_values(by='Top5_Average_GDP', ascending=False): by the exact mean
RECURSIVE InsertByMean(_, _)
InsertByMean(sorted, g) ==
    IF sorted = << >> THEN <<g>>
    ELSE IF Head(sorted).sum * g.n >= g.sum * Head(sorted).n
         THEN <<Head(sorted)>> \o InsertByMean(Tail(sorted), g)
         ELSE <<g>> \o sorted

RECURSIVE SortByMean(_)
SortByMean(s) ==
    IF s = << >> THEN << >>
    ELSE InsertByMean(SortByMean(SubSeq(s, 1, Len(s) - 1)), s[Len(s)])

\* ORDER BY Average_GDP DESC: by the rounded average; SQL leaves the order of
\* equal averages open, they are kept in GROUP BY order here
RECURSIVE InsertByAverage(_, _)
InsertByAverage(sorted, g) ==
    IF sorted = << >> THEN <<g>>
    ELSE IF Head(sorted).Average >= g.Average
         THEN <<Head(sorted)>> \o InsertByAverage(Tail(sorted), g)
         ELSE <<g>> \o sorted

RECURSIVE SortByAverage(_)
SortByAverage(s) ==
    IF s = << >> THEN << >>
    ELSE InsertByAverage(SortByAverage(SubSeq(s, 1, Len(s) - 1)), s[Len(s)])

NoOutput == [raised |-> FALSE, time |-> 0, latest |-> << >>, high |-> << >>, avg |-> << >>]

\* df[df['Processed_Time'] == df['Processed_Time'].max()]
LatestJson(history) ==
    LET latest_time == MaxOf({history[i].Processed_Time.t : i \in 1..Len(history)})
    IN  SelectSeq(history, LAMBDA r : r.Processed_Time.t = latest_time)

\* latest_df[latest_df['GDP_USD_billion'] >= 100][['Country', 'Region', 'GDP_USD_billion']]
HighJson(latest_df) ==
    LET high == SelectSeq(latest_df, LAMBDA r : r.GDP_USD_billion >= Threshold)
    IN  [i \in 1..Len(high) |-> Listed(high[i])]

\* groupby('Region')['GDP_USD_billion'].apply(lambda x: x.nlargest(5).mean()),
\* sorted descending, each average printed with format ',.2f' (the nearest
\* two-decimal number, an exactly representable tie such as 100.125 to even)
AverageJson(latest_df) ==
    LET region_avg == SortByMean(GroupTop(latest_df, TopK))
    IN  [i \in 1..Len(region_avg) |->
            [Region |-> region_avg[i].Region,
             Average |-> RoundHalfEven(region_avg[i].sum, region_avg[i].n)]]

\* pd.read_json(JSON_PATH) followed by run_analysis(history_df); an empty
\* document gives a frame without columns and df['Processed_Time'] raises
RunAnalysis(fileRows) ==
    LET history == ReadJson(fileRows)
    IN  IF history = << >>
        THEN [NoOutput EXCEPT !.raised = TRUE]
        ELSE LET latest_df == LatestJson(history)
             IN  [raised |-> FALSE,
                  time |-> latest_df[1].Processed_Time.t,
                  latest |-> latest_df,
                  high |-> HighJson(latest_df),
                  avg |-> AverageJson(latest_df)]

\* the rows WHERE Processed_Time = ? selects, ? being SELECT MAX(Processed_Time);
\* on an empty table MAX is NULL and no row compares equal to it
LatestSql(rows) ==
    IF rows = << >> THEN << >>
    ELSE LET latest_time == MaxOf({rows[i].Processed_Time : i \in 1..Len(rows)})
         IN  SelectSeq(rows, LAMBDA r : r.Processed_Time = latest_time)

\* query_100b: WHERE GDP_USD_billion >= 100 ... ORDER BY GDP_USD_billion DESC
HighSql(latest) ==
    LET high == SortDesc(SelectSeq(latest, LAMBDA r : r.GDP_USD_billion >= Threshold))
    IN  [i \in 1..Len(high) |-> Listed(high[i])]

\* query_top5_avg: ROW_NUMBER() per Region, rank <= 5, ROUND(AVG(...), 2)
\* (SQLite rounds a tie away from zero), ORDER BY Average_GDP DESC
AverageSql(latest) ==
    LET grouped == GroupTop(latest, TopK)
    IN  SortByAverage([i \in 1..Len(grouped) |->
                          [Region |-> grouped[i].Region,
                           Average |-> RoundHalfAway(grouped[i].sum, grouped[i].n)]])

\* run_sql_analysis(db_name, table_name)
RunSqlAnalysis(rows) ==
    LET latest == LatestSql(rows)
    IN  [raised |-> FALSE,
         time |-> IF latest = << >> THEN 0 ELSE latest[1].Processed_Time,
         latest |-> latest,
         high |-> HighSql(latest),
         avg |-> AverageSql(latest)]

-----------------------------------------------------------------------------
(* __main__ of either script, one action per phase.  A phase that raises     *)
(* takes the except branch of __main__ in the same step.                    *)

\* the table rows the pipeline specification lets an extract yield
RunRows ==
    {RawRow("Japan", Txt100120), RawRow("India", Txt100130n), RawRow("Kosovo", TxtDash)}

Stores == [json |-> jsonFile, sql |-> dbTable]

StoreLen == IF backend = "json" THEN Len(jsonFile.rows) ELSE Len(dbTable.rows)

\* a snapshot as history remembers it: its timestamp and its rows in frame order
Snapshot(frame, now) ==
    [t |-> now, rows |-> [i \in 1..Len(frame) |-> Listed(frame[i])]]

Failed == <<Line("ETL Process Failed", 0)>>

\* how: "ok", "open" or "write" (JSON), "insert" (SQLite); done: rows inserted before the failure
LoadRecord(how, done) == [json |-> jsonFile, sql |-> dbTable, how |-> how, done |-> done]

NoLoad == [json |-> AbsentFile, sql |-> NoTable, how |-> "ok", done |-> 0]

Init ==
    /\ backend \in {"json", "sql"}
    /\ regionFile = TRUE
    /\ dateUnit \in (IF backend = "json" THEN DateUnits ELSE {"ms"})
    /\ pc = "idle"
    /\ raw = << >>
    /\ df = << >>
    /\ log = << >>
    /\ jsonFile = AbsentFile
    /\ dbTable = NoTable
    /\ outJson = NoOutput
    /\ outSql = NoOutput
    /\ atStart = [json |-> AbsentFile, sql |-> NoTable]
    /\ atLoad = NoLoad
    /\ appended = << >>

\* log_progress("ETL Process Started") and extract(WIKIPEDIA_URL)
Extract ==
    /\ pc \in {"idle", "done", "failed"}
    /\ atStart' = Stores
    /\ LET begun == <<Line("ETL Process Started", 0), Line("Extract phase Started", 0)>>
       IN  \/ /\ raw' = << >>                       \* requests.get / raise_for_status raises
              /\ log' = begun \o Failed
              /\ pc' = "failed"
           \/ /\ raw' = << >>                       \* no table carries the marker text
              /\ log' = begun
                        \o <<Line("Extract phase Failed: Target table not found", 0)>>
                        \o Failed
              /\ pc' = "failed"
           \/ \E rows \in SeqsUpTo(RunRows, Min(MaxRunRows, MaxStore - StoreLen)) :
                 /\ raw' = rows
                 /\ log' = begun \o <<Line("Extract phase Ended", Len(rows))>>
                 /\ pc' = IF rows = << >> THEN "done" ELSE "transform"   \* raw_data.empty
    /\ UNCHANGED <<backend, regionFile, dateUnit, df, jsonFile, dbTable, outJson, outSql, atLoad, appended>>

\* transform(raw_data)
Transform ==
    /\ pc = "transform"
    /\ \E now \in Times :
          LET res == IF backend = "json"
                     THEN TransformJson(raw, now, regionFile)
                     ELSE TransformSql(raw, now, regionFile)
          IN  /\ df' = res.df
              /\ log' = log \o res.log
    /\ pc' = "load"
    /\ UNCHANGED <<backend, regionFile, dateUnit, raw, jsonFile, dbTable, outJson, outSql, atStart, atLoad,
                   appended>>

FrameTime(frame) ==
    IF backend = "json" THEN frame[1].Processed_Time.t ELSE frame[1].Processed_Time

\* what history remembers after a load that appended `frame`
Remember(sofar, frame) ==
    IF frame = << >> THEN sofar ELSE Append(sofar, Snapshot(frame, FrameTime(frame)))

\* load(transformed_data, JSON_PATH)
LoadJsonStep ==
    /\ pc = "load"
    /\ backend = "json"
    /\ \E how \in {"ok", "open", "write"} :
          LET res == LoadJson(jsonFile, df, how)
          IN  /\ atLoad' = LoadRecord(how, 0)
              /\ jsonFile' = res.file
              /\ log' = log \o res.log \o (IF res.raised THEN Failed ELSE << >>)
              /\ pc' = IF res.raised THEN "failed" ELSE "analysis"
              /\ appended' = IF how = "ok"
                             THEN Remember(IF jsonFile.state = "ok" THEN appended ELSE << >>,
                                           df)
                             ELSE IF how = "write" THEN << >> ELSE appended
    /\ UNCHANGED <<backend, regionFile, dateUnit, raw, df, dbTable, outJson, outSql, atStart>>

\* load_to_db(transformed_data, DB_NAME, TABLE_NAME)
LoadToDbStep ==
    /\ pc = "load"
    /\ backend = "sql"
    /\ \E fails \in BOOLEAN, done \in 0..Len(df) :
          /\ fails => done < Len(df)
          /\ ~fails => done = Len(df)
          /\ LET res == LoadToDb(dbTable, df, fails, done)
             IN  /\ atLoad' = LoadRecord(IF fails THEN "insert" ELSE "ok", done)
                 /\ dbTable' = res.table
                 /\ log' = log \o res.log \o (IF res.raised THEN Failed ELSE << >>)
                 /\ pc' = IF res.raised THEN "failed" ELSE "analysis"
                 /\ appended' = IF res.raised THEN appended ELSE Remember(appended, df)
    /\ UNCHANGED <<backend, regionFile, dateUnit, raw, df, jsonFile, outJson, outSql, atStart>>

Completed ==
    <<Line("Analysis phase Ended", 0), Line("ETL Process Completed Successfully", 0)>>

\* pd.read_json(JSON_PATH), run_analysis(history_df) and the closing log line
AnalysisJsonStep ==
    /\ pc = "analysis"
    /\ backend = "json"
    /\ jsonFile.state = "ok"                        \* os.path.exists(JSON_PATH)
    /\ LET res == RunAnalysis(jsonFile.rows)
       IN  /\ outJson' = res
           /\ log' = log \o <<Line("Analysis phase Started", 0)>>
                         \o (IF res.raised THEN Failed ELSE Completed)
           /\ pc' = IF res.raised THEN "failed" ELSE "done"
    /\ UNCHANGED <<backend, regionFile, dateUnit, raw, df, jsonFile, dbTable, outSql, atStart, atLoad, appended>>

\* run_sql_analysis(DB_NAME, TABLE_NAME) and the closing log line
AnalysisSqlStep ==
    /\ pc = "analysis"
    /\ backend = "sql"
    /\ LET res == RunSqlAnalysis(dbTable.rows)
       IN  /\ outSql' = res
           /\ log' = log \o <<Line("Analysis phase Started", 0)>> \o Completed
           /\ pc' = "done"
    /\ UNCHANGED <<backend, regionFile, dateUnit, raw, df, jsonFile, dbTable, outJson, atStart, atLoad, appended>>

\* between two runs the document is damaged from outside (bad disk, a manual edit)
Damage ==
    /\ pc \in {"done", "failed"}
    /\ backend = "json"
    /\ jsonFile.state = "ok"
    /\ jsonFile' = CorruptFile
    /\ appended' = << >>
    /\ pc' = "idle"
    /\ UNCHANGED <<backend, regionFile, dateUnit, raw, df, log, dbTable, outJson, outSql, atStart, atLoad>>

Next ==
    \/ Extract
    \/ Transform
    \/ LoadJsonStep
    \/ LoadToDbStep
    \/ AnalysisJsonStep
    \/ AnalysisSqlStep
    \/ Damage

Spec == Init /\ [][Next]_vars

-----------------------------------------------------------------------------
(* transform on its own: every raw table over RawTexts, either script *)

InitTransform ==
    /\ backend \in {"json", "sql"}
    /\ regionFile \in BOOLEAN
    /\ dateUnit = "ms"
    /\ pc = "transform"
    /\ raw \in NonEmptySeqsUpTo({RawRow(c, t) : c \in Countries, t \in RawTexts}, MaxRawRows)
    /\ df = << >>
    /\ log = << >>
    /\ jsonFile = AbsentFile
    /\ dbTable = NoTable
    /\ outJson = NoOutput
    /\ outSql = NoOutput
    /\ atStart = [json |-> AbsentFile, sql |-> NoTable]
    /\ atLoad = NoLoad
    /\ appended = << >>

SpecTransform == InitTransform /\ [][Transform]_vars

-----------------------------------------------------------------------------
(* Both scripts run on the same page in the same second, with nothing       *)
(* failing: the same snapshots reach both stores. The clock does not go     *)
(* back between two pairs of runs (it may stay within the same second).     *)

AnalysisRows ==
    {RawRow("Japan", Txt100120), RawRow("India", Txt100130n), RawRow("Kosovo", Txt99900y)}

InitAnalysis ==
    /\ backend = "both"
    /\ regionFile = TRUE
    /\ dateUnit \in DateUnits
    /\ pc = "idle"
    /\ raw = << >>
    /\ df = << >>
    /\ log = << >>
    /\ jsonFile = AbsentFile
    /\ dbTable = NoTable
    /\ outJson = NoOutput
    /\ outSql = NoOutput
    /\ atStart = [json |-> AbsentFile, sql |-> NoTable]
    /\ atLoad = NoLoad
    /\ appended = << >>

EtlBoth ==
    /\ pc \in {"idle", "done"}
    /\ Len(appended) < MaxPairs
    /\ \E rows \in NonEmptySeqsUpTo(AnalysisRows, MaxRows - Len(dbTable.rows)),
          now \in {t \in Times : \A i \in 1..Len(appended) : appended[i].t <= t} :
          LET json_df == TransformJson(rows, now, regionFile).df
              sql_df == TransformSql(rows, now, regionFile).df
              file == LoadJson(jsonFile, json_df, "ok").file
              table == LoadToDb(dbTable, sql_df, FALSE, Len(sql_df)).table
          IN  /\ jsonFile' = file
              /\ dbTable' = table
              /\ outJson' = RunAnalysis(file.rows)
              /\ outSql' = RunSqlAnalysis(table.rows)
              /\ appended' = Append(appended, Snapshot(sql_df, now))
    /\ pc' = "done"
    /\ UNCHANGED <<backend, regionFile, dateUnit, raw, df, log, atStart, atLoad>>

SpecAnalysis == InitAnalysis /\ [][EtlBoth]_vars

-----------------------------------------------------------------------------
(* Vocabulary of the properties *)

HasLine(m) == \E i \in 1..Len(log) : log[i].msg = m

LastLine == log[Len(log)].msg

IsPrefix(a, b) == Len(a) <= Len(b) /\ SubSeq(b, 1, Len(a)) = a

\* the rows a store holds, each as its timestamp and its listed columns
Tagged(t, r) == [t |-> t, row |-> Listed(r)]

JsonHistory == [i \in 1..Len(jsonFile.rows) |->
                   Tagged(jsonFile.rows[i].Processed_Time.t, jsonFile.rows[i])]

SqlHistory == [i \in 1..Len(dbTable.rows) |->
                  Tagged(dbTable.rows[i].Processed_Time, dbTable.rows[i])]

History == IF backend = "json" THEN JsonHistory ELSE SqlHistory

\* the rows of the remembered snapshots, one after the other
RECURSIVE Flatten(_)
Flatten(snaps) ==
    IF snaps = << >> THEN << >>
    ELSE Flatten(SubSeq(snaps, 1, Len(snaps) - 1))
         \o [i \in 1..Len(snaps[Len(snaps)].rows) |->
                [t |-> snaps[Len(snaps)].t, row |-> snaps[Len(snaps)].rows[i]]]

\* the listed columns of tagged rows, their timestamps left out
Rows(tagged) == [i \in 1..Len(tagged) |-> tagged[i].row]

DistinctTimes(snaps) ==
    \A i, j \in 1..Len(snaps) : i # j => snaps[i].t # snaps[j].t

\* the run in progress has just completed its analysis
Analysed == pc = "done" /\ log # << >> /\ LastLine = "ETL Process Completed Successfully"

Printed == IF backend = "json" THEN outJson ELSE outSql

PrintedLatest ==
    [i \in 1..Len(Printed.latest) |->
        Tagged(IF backend = "json" THEN Printed.latest[i].Processed_Time.t
                                   ELSE Printed.latest[i].Processed_Time,
               Printed.latest[i])]

\* the run in progress has been through its load
LoadBegan ==
    HasLine(IF backend = "json" THEN "Load phase Started" ELSE "Load to DB Started")

\* the load of the run in progress has just ended, by returning or by raising
JustLoaded == pc \in {"analysis", "failed"} /\ LoadBegan /\ ~HasLine("Analysis phase Started")

-----------------------------------------------------------------------------
(* Properties of the pipeline (specification Spec) *)

\* C1 (as claimed): an append whose prior store is readable leaves every row
\* persisted before it as it was: the store after the load is the store
\* before it followed by exactly the rows of the new snapshot.
C1_AppendOnly ==
    pc = "analysis" =>
        IF backend = "json"
        THEN atLoad.json.state # "corrupt" =>
                /\ IsPrefix(atLoad.json.rows, jsonFile.rows)
                /\ jsonFile.rows = atLoad.json.rows \o ToJson(df)
        ELSE /\ IsPrefix(atLoad.sql.rows, dbTable.rows)
             /\ dbTable.rows = atLoad.sql.rows \o df

\* C2 (as claimed): after appends of snapshots with pairwise distinct timestamps to a store
\* that started empty, the analysis selects exactly the rows of the snapshot
\* with the greatest Processed_Time, and the store still holds the rows of
\* every snapshot appended.
C2_LatestSnapshot ==
    (Analysed /\ appended # << >> /\ DistinctTimes(appended)) =>
        LET m == CHOOSE i \in 1..Len(appended) :
                     \A j \in 1..Len(appended) : appended[j].t <= appended[i].t
        IN  /\ Rows(PrintedLatest) = Rows(Flatten(<<appended[m]>>))
            /\ Printed.time = appended[m].t
            /\ Rows(History) = Rows(Flatten(appended))

\* C3: a load that finds the prior document unreadable does not raise for it:
\* it logs the warning and, to_json succeeding, the document then holds
\* exactly the rows of the new snapshot.
C3_CorruptPrior ==
    (/\ backend = "json"
     /\ JustLoaded
     /\ atLoad.json.state = "corrupt"
     /\ atLoad.how = "ok") =>
        /\ pc = "analysis"
        /\ ~HasLine("ETL Process Failed")
        /\ HasLine("Load Warning: Failed to load history, starting new file")
        /\ jsonFile.state = "ok"
        /\ jsonFile.rows = df

C3_Witness ==
    /\ backend = "json"
    /\ pc = "analysis"
    /\ atLoad.json.state = "corrupt"
    /\ atLoad.how = "ok"
    /\ df # << >>

\* C4: an append to the table is all or nothing: after a failed insert the
\* table is what it was, the table is always whole snapshots one after the
\* other, and the rows the latest-snapshot query selects are all the rows of
\* the snapshots with the greatest timestamp.
C4_AllOrNothing ==
    backend = "sql" =>
        /\ JustLoaded =>
               IF atLoad.how = "insert"
               THEN dbTable.rows = atLoad.sql.rows
               ELSE dbTable.rows = atLoad.sql.rows \o df
        /\ SqlHistory = Flatten(appended)
        /\ LET latest == LatestSql(dbTable.rows)
               tagged == [i \in 1..Len(latest) |-> Tagged(latest[i].Processed_Time, latest[i])]
               newest == SelectSeq(appended,
                                   LAMBDA s : \A j \in 1..Len(appended) : appended[j].t <= s.t)
           IN  tagged = Flatten(newest)

C4_Witness ==
    /\ backend = "sql"
    /\ pc = "failed"
    /\ LoadBegan
    /\ atLoad.how = "insert"
    /\ atLoad.done >= 1
    /\ atLoad.sql.rows # << >>


\* the phases the run in progress has entered, in the order it entered them
PhaseOf(m) ==
    IF m = "Extract phase Started" THEN "extract"
    ELSE IF m = "Transform phase Started" THEN "transform"
    ELSE IF m \in {"Load phase Started", "Load to DB Started"} THEN "load"
    ELSE IF m = "Analysis phase Started" THEN "analysis"
    ELSE "none"

PhasesRun ==
    LET marks == SelectSeq(log, LAMBDA l : PhaseOf(l.msg) # "none")
    IN  [i \in 1..Len(marks) |-> PhaseOf(marks[i].msg)]

\* the rows that can be read back from a store
Readable(stores) ==
    IF backend = "json"
    THEN (IF stores.json.state = "ok" THEN stores.json.rows ELSE << >>)
    ELSE stores.sql.rows

\* the phases run in order, and a phase that fails ends the run: nothing is
\* entered after it, 'ETL Process Failed' is the last line, success is not logged
OrderedAndStopped ==
    /\ IsPrefix(PhasesRun, <<"extract", "transform", "load", "analysis">>)
    /\ pc = "failed" => HasLine("ETL Process Failed")
    /\ HasLine("ETL Process Failed") => pc \in {"failed", "idle"}
    /\ HasLine("ETL Process Failed") =>
           /\ LastLine = "ETL Process Failed"
           /\ ~HasLine("ETL Process Completed Successfully")
    /\ HasLine("Extract phase Failed: Target table not found") =>
           pc \in {"failed", "idle"} /\ PhasesRun = <<"extract">>
    /\ (JustLoaded /\ atLoad.how # "ok") => pc = "failed"
    /\ (pc \in {"done", "failed"} /\ HasLine("Analysis phase Started") /\ Printed.raised) =>
           pc = "failed"
    /\ HasLine("ETL Process Completed Successfully") =>
           PhasesRun = <<"extract", "transform", "load", "analysis">>

FailedBeforeAnalysis == pc = "failed" /\ ~HasLine("Analysis phase Started")

\* C8: the phases run in order, a failing phase ends the run with
\* 'ETL Process Failed' and without the success line, and a failure before or
\* during the load leaves the persisted history as the run found it.
C8_FailureKeepsHistory ==
    /\ OrderedAndStopped
    /\ FailedBeforeAnalysis => Readable(Stores) = Readable(atStart)

-----------------------------------------------------------------------------
(* Properties of transform (specification SpecTransform) *)

Count(s, x) == Cardinality({i \in 1..Len(s) : s[i] = x})

\* a raw row as transform should emit it, when its text is numeric
Emitted(r) ==
    [Country |-> r.Country,
     GDP_USD_billion |-> ToBillion(ToNumeric(CleanText(r.GDP_USD_million)))]

\* C9 (as claimed): transform emits exactly the rows whose cleaned text is
\* numeric, none of them turned into a zero, and the run logs how many rows
\* it dropped.
C9_DroppedReported ==
    pc = "load" =>
        LET numeric == SelectSeq(raw, LAMBDA r : IsNumeric(CleanText(r.GDP_USD_million)))
            expected == [i \in 1..Len(numeric) |-> Emitted(numeric[i])]
            emitted == [i \in 1..Len(df) |->
                           [Country |-> df[i].Country,
                            GDP_USD_billion |-> df[i].GDP_USD_billion]]
            dropped == Len(raw) - Len(numeric)
        IN  /\ Len(df) = Len(numeric)
            /\ \A i \in 1..Len(expected) : Count(emitted, expected[i]) = Count(expected, expected[i])
            /\ dropped > 0 =>
                   \E i \in 1..Len(log) :
                       log[i] = Line("Transform: Filtered out rows with invalid GDP data", dropped)

\* C10 (as claimed): every row transform emits has GDP_USD_billion >= 0.
C10_NonNegative ==
    pc = "load" => \A i \in 1..Len(df) : df[i].GDP_USD_billion >= 0

-----------------------------------------------------------------------------
(* Properties of the reports (specification SpecAnalysis) *)

\* the columns of the rows an analysis selected as the latest snapshot
ListedRows(latest) == [i \in 1..Len(latest) |-> Listed(latest[i])]

IsDescending(values) ==
    \A i, j \in 1..Len(values) : i < j => values[i] >= values[j]

\* the report the claim describes: the rows at or above the threshold, in
\* descending order of GDP_USD_billion, equal values in their stored order
ThresholdReport(rows) ==
    SortDesc(SelectSeq(rows, LAMBDA r : r.GDP_USD_billion >= Threshold))

\* C5 (as claimed): in both scripts the threshold report lists exactly the
\* rows of the latest snapshot with GDP_USD_billion >= 100, in descending order
\* of GDP_USD_billion, equal values in their original order.
C5_ThresholdSorted ==
    pc = "done" =>
        /\ outJson.high = ThresholdReport(ListedRows(outJson.latest))
        /\ outSql.high = ThresholdReport(ListedRows(outSql.latest))

RECURSIVE SumOver(_, _)
SumOver(I, rows) ==
    IF I = {} THEN 0
    ELSE LET i == CHOOSE x \in I : TRUE
         IN  rows[i].GDP_USD_billion + SumOver(I \ {i}, rows)

\* the greatest sum any m rows of group g reach
TopSum(rows, g, m) ==
    LET members == {i \in 1..Len(rows) : rows[i].Region = g}
    IN  MaxOf({SumOver(T, rows) : T \in {U \in SUBSET members : Cardinality(U) = m}})

GroupSize(rows, g) == Cardinality({i \in 1..Len(rows) : rows[i].Region = g})

\* `avg` is the top-K report of `rows`: one line per group that has rows, each
\* the two-decimal number nearest to the mean of the min(K, size) largest
\* values of its group, lines in descending order of the average
IsTopKReport(avg, rows) ==
    LET present == {rows[i].Region : i \in 1..Len(rows)}
    IN  /\ {avg[i].Region : i \in 1..Len(avg)} = present
        /\ Len(avg) = Cardinality(present)
        /\ \A i \in 1..Len(avg) :
               LET m == Min(TopK, GroupSize(rows, avg[i].Region))
                   S == TopSum(rows, avg[i].Region, m)
                   d == avg[i].Average * m - S
               IN  2 * d <= m /\ -2 * d <= m
        /\ IsDescending([i \in 1..Len(avg) |-> avg[i].Average])

\* C6: in both scripts the top-5 report is computed from the rows selected as
\* the latest snapshot only: it has one line per region present among them, each the mean of the min(5, size) largest GDP_USD_billion
\* of that region rounded to two decimals, in descending order of the average.
C6_TopKAverage ==
    pc = "done" =>
        /\ IsTopKReport(outJson.avg, ListedRows(outJson.latest))
        /\ IsTopKReport(outSql.avg, ListedRows(outSql.latest))

\* a latest snapshot with a region of more than five rows, whose smallest
\* value is left out of the average
C6_Witness ==
    /\ pc = "done"
    /\ LET rows == ListedRows(outJson.latest)
       IN  \E g \in {rows[i].Region : i \in 1..Len(rows)} :
               /\ GroupSize(rows, g) > TopK
               /\ TopSum(rows, g, TopK) * GroupSize(rows, g)
                      > TopSum(rows, g, GroupSize(rows, g)) * TopK
    /\ outSql.avg # << >>
    /\ outJson.avg # << >>

\* C7 (as claimed): after the same snapshots were appended to both stores, the
\* two scripts select the same rows as the latest snapshot and print the same
\* top-5 averages: same regions, same values, same order.
C7_Parity ==
    pc = "done" =>
        LET j == ListedRows(outJson.latest)
            q == ListedRows(outSql.latest)
        IN  /\ \A i \in 1..Len(j) : Count(j, j[i]) = Count(q, j[i])
            /\ Len(j) = Len(q)
            /\ outJson.avg = outSql.avg

=============================================================================
